---- MODULE Spec2Model ----
(***************************************************************************)
(* Bewerbungs-Bot (src/bot.py): a Telegram bot that keeps one JSON record  *)
(* per user (documents, job preferences, alert switch), collects them in   *)
(* two guided conversations, searches jobs daily and on demand, caches the *)
(* last batch per user and generates a cover letter for a cached posting.  *)
(*                                                                         *)
(* Text is modelled as a sequence of one-character strings, so that        *)
(* strip(), lower(), split(":"), int() and string concatenation are        *)
(* computed as Python computes them.  A Python dict is a function on the   *)
(* set of its keys.                                                        *)
(***************************************************************************)
EXTENDS Integers, Sequences, FiniteSets, TLC

VARIABLES
    jobA, jobB,      \* two postings whose ids are compared
    idA, idB,        \* job_id of jobA and of jobB once computed (<<>> before)
    user_data,       \* uid -> the dict stored in user_data/<uid>_data.json ({} when absent)
    jobs_file,       \* uid -> <<>> when user_data/<uid>_jobs.json is absent, else <<dict>>
    doc_state,       \* uid -> state of the doc_setup ConversationHandler (END: none)
    job_state,       \* uid -> state of the job_setup ConversationHandler (END: none)
    ctx,             \* uid -> context.user_data, the in-memory answers collected so far
    ev,              \* what the last completed handler step did (handler, user, reply, writes)
    daily,           \* the daily_job_search task: its position and locals
    upd,             \* the update being handled by the dispatcher, when it is suspended in an await
    batches,         \* uid -> the id sets of the user's last two searched batches, oldest first
    nUpdates,        \* inbound updates dispatched so far
    nRuns            \* daily triggers fired so far

vars == <<jobA, jobB, idA, idB, user_data, jobs_file, doc_state, job_state, ctx,
          ev, daily, upd, batches, nUpdates, nRuns>>

----
(* Text *)

IsSpace(c) == c \in {" ", "\t", "\n"}

RECURSIVE LStrip(_)
LStrip(s) == IF s # <<>> /\ IsSpace(Head(s)) THEN LStrip(Tail(s)) ELSE s

RECURSIVE RStrip(_)
RStrip(s) == IF s # <<>> /\ IsSpace(s[Len(s)]) THEN RStrip(SubSeq(s, 1, Len(s) - 1)) ELSE s

\* str.strip()
Strip(s) == RStrip(LStrip(s))

UpperLetters == <<"A","B","C","D","E","F","G","H","I","J","K","L","M",
                  "N","O","P","Q","R","S","T","U","V","W","X","Y","Z">>
LowerLetters == <<"a","b","c","d","e","f","g","h","i","j","k","l","m",
                  "n","o","p","q","r","s","t","u","v","w","x","y","z">>

LowerChar(c) ==
    IF \E i \in 1..Len(UpperLetters) : UpperLetters[i] = c
    THEN LowerLetters[CHOOSE i \in 1..Len(UpperLetters) : UpperLetters[i] = c]
    ELSE c

\* str.lower()
Lower(s) == [i \in 1..Len(s) |-> LowerChar(s[i])]

\* str.split(sep) for a one-character separator: always at least one part
RECURSIVE Split(_, _)
Split(s, sep) ==
    IF \E i \in 1..Len(s) : s[i] = sep
    THEN LET i == CHOOSE k \in 1..Len(s) : s[k] = sep /\ \A j \in 1..(k - 1) : s[j] # sep
         IN  <<SubSeq(s, 1, i - 1)>> \o Split(SubSeq(s, i + 1, Len(s)), sep)
    ELSE <<s>>

Digits == <<"0","1","2","3","4","5","6","7","8","9">>
IsDigit(c) == \E i \in 1..Len(Digits) : Digits[i] = c
DigitValue(c) == (CHOOSE i \in 1..Len(Digits) : Digits[i] = c) - 1

\* s without the sign int() accepts in front of the digits
Unsigned(s) == IF s # <<>> /\ Head(s) \in {"+", "-"} THEN Tail(s) ELSE s

\* int(s) does not raise ValueError: optional blanks, optional sign, then digits only
\* (the inputs of the model hold no "_" and no non-ASCII digit)
IntParses(s) ==
    LET u == Unsigned(Strip(s))
    IN  u # <<>> /\ \A i \in 1..Len(u) : IsDigit(u[i])

RECURSIVE DigitsValue(_)
DigitsValue(u) ==
    IF u = <<>> THEN 0 ELSE 10 * DigitsValue(SubSeq(u, 1, Len(u) - 1)) + DigitValue(u[Len(u)])

\* int(s), where IntParses(s)
IntOf(s) ==
    LET t == Strip(s)
    IN  IF t # <<>> /\ Head(t) = "-" THEN 0 - DigitsValue(Unsigned(t)) ELSE DigitsValue(Unsigned(t))

----
(* Python dicts *)

\* d.get(k, default)
Get(d, k, default) == IF k \in DOMAIN d THEN d[k] ELSE default

\* d[k] = v
Put(d, k, v) == [x \in DOMAIN d \cup {k} |-> IF x = k THEN v ELSE d[x]]

EmptyDict == [x \in {} |-> 0]

----
(* Item identity *)

\* hashlib.md5(raw).hexdigest()[:12], tabulated for the raw strings the model's postings give
Md5Hex12(raw) ==
    CASE raw = <<>> -> "d41d8cd98f00"
      [] raw = <<"a", "b", "b", "b", "u">> -> "1cf8de9f72d7"
      [] raw = <<"a", "b", "b", "b", "v">> -> "57ca64702267"
      [] raw = <<"a", "b", "b", "u">> -> "c1a635a03762"
      [] raw = <<"a", "b", "b", "v">> -> "4580bc8558db"
      [] raw = <<"a", "b", "u">> -> "34d71b97c471"
      [] raw = <<"a", "b", "v">> -> "eec582628e4b"
      [] raw = <<"b", "b", "b", "u">> -> "1afbc7d4d6a6"
      [] raw = <<"b", "b", "b", "v">> -> "eafade64259f"
      [] raw = <<"b", "b", "u">> -> "6d11291869bf"
      [] raw = <<"b", "b", "v">> -> "029c2aa336dc"
      [] raw = <<"c", "b", "b", "u">> -> "69fae77ec49b"
      [] raw = <<"c", "b", "b", "v">> -> "4b1bb66b53bc"
      [] raw = <<"c", "b", "u">> -> "d138070508b6"
      [] raw = <<"c", "b", "v">> -> "600f745fb866"
      [] raw = <<"d", "b", "b", "u">> -> "77a181b83173"
      [] raw = <<"d", "b", "b", "v">> -> "4495af654d66"
      [] raw = <<"d", "b", "u">> -> "e68767ea79ef"
      [] raw = <<"d", "b", "v">> -> "d308cbfce7e2"
      [] raw = <<"e", "b", "b", "u">> -> "f6ec0bb9af02"
      [] raw = <<"e", "b", "b", "v">> -> "7539fce8c8ab"
      [] raw = <<"e", "b", "u">> -> "b2c058befff6"
      [] raw = <<"e", "b", "v">> -> "1a38c728407f"
      [] raw = <<"f", "b", "b", "u">> -> "9b7243ce33de"
      [] raw = <<"f", "b", "b", "v">> -> "f115aba39dc3"
      [] raw = <<"f", "b", "u">> -> "295b4fe08732"
      [] raw = <<"f", "b", "v">> -> "664aceb04052"
      [] raw = <<"g", "b", "b", "u">> -> "6f8edb7956b2"
      [] raw = <<"g", "b", "b", "v">> -> "a620cfb0c45f"
      [] raw = <<"g", "b", "u">> -> "83d706e26da9"
      [] raw = <<"g", "b", "v">> -> "9f80ebe06011"
      [] raw = <<"h", "b", "b", "u">> -> "1600fddac2f1"
      [] raw = <<"h", "b", "b", "v">> -> "125c7c1371e3"
      [] raw = <<"h", "b", "u">> -> "ec34e3ddb39f"
      [] raw = <<"h", "b", "v">> -> "bf6d0451d40f"
      [] raw = <<"i", "b", "b", "u">> -> "3caff7c6d3d6"
      [] raw = <<"i", "b", "b", "v">> -> "6f27b0a936b3"
      [] raw = <<"i", "b", "u">> -> "bd4c70d40f7f"
      [] raw = <<"i", "b", "v">> -> "49f2da76a772"
      [] raw = <<"j", "b", "b", "u">> -> "132d74fe9a8b"
      [] raw = <<"j", "b", "b", "v">> -> "127f157fa580"
      [] raw = <<"j", "b", "u">> -> "a41c8884c6ca"
      [] raw = <<"j", "b", "v">> -> "a8adbf2aaf0e"
      [] raw = <<"k", "b", "b", "u">> -> "e75f523d3cbb"
      [] raw = <<"k", "b", "b", "v">> -> "cf4847f2c4bb"
      [] raw = <<"k", "b", "u">> -> "ce03478d3fba"
      [] raw = <<"k", "b", "v">> -> "93f905480524"
      [] raw = <<"l", "b", "b", "u">> -> "243195f11f77"
      [] raw = <<"l", "b", "b", "v">> -> "ae604b05a20a"
      [] raw = <<"l", "b", "u">> -> "ae539005626c"
      [] raw = <<"l", "b", "v">> -> "b90b4946e5b5"
      [] raw = <<"m", "b", "b", "u">> -> "24215de740f7"
      [] raw = <<"m", "b", "b", "v">> -> "9e6689e9fbb4"
      [] raw = <<"m", "b", "u">> -> "19135ac4d2cb"
      [] raw = <<"m", "b", "v">> -> "c6d51a350fa3"

\* the bytes job_id hashes: title, company and job_url, concatenated with no separator
JobIdRaw(job) ==
    Get(job, "title", <<>>) \o Get(job, "company", <<>>) \o Get(job, "job_url", <<>>)

job_id(job) == Md5Hex12(JobIdRaw(job))

----
(* Configuration and conversation states *)

DAILY_HOUR == 6
DAILY_MINUTE == 0

SETUP_CHOICE == 0
SETUP_CV == 1
SETUP_MUSTER == 2
JOB_TITLE == 3
JOB_LOCATION == 4
JOB_KEYWORDS == 5
JOB_REMOTE == 6
JOB_TIME == 7
\* ConversationHandler.END: the user is in no conversation of that handler
END == -1

Users == {1, 2}

\* load_user_data / save_user_data: one record per user, {} when the file is absent
load_user_data(u) == user_data[u]

save_user_data(u, data) == [user_data EXCEPT ![u] = data]

\* Python truthiness of d.get(k) where the value is a str or a dict (non-empty), or a bool
HasValue(d, k) == k \in DOMAIN d /\ d[k] # <<>>

IsTrue(d, k) == k \in DOMAIN d /\ d[k]

----
(* Inbound text the users send, by the prompt it answers *)

DataAnalyst == <<"D","a","t","a"," ","A","n","a","l","y","s","t">>
Berlin == <<"B","e","r","l","i","n">>

ChoiceInputs == {<<"1">>, <<"2">>, <<" ","3">>, <<"x">>}
TitleInputs == {<<" ">> \o DataAnalyst}
LocationInputs == {Berlin \o <<" ">>}
KeywordInputs == {<<"s","k","i","p">>, <<"S","k","i","p">>, <<"S","Q","L"," ">>}
RemoteInputs == {<<"J","a">>, <<"n","e","i","n">>}
TimeInputs == {<<"o","k">>, <<"O","K"," ">>, <<"0","7",":","3","0">>, <<"7">>, <<"2","5",":","9","9">>,
               <<"-","1",":","0","0">>, <<"a","b","c">>, <<"7",":","x">>}
\* decoded content of an uploaded file
DocTexts == {<<"c","v">>, <<"m","u","s","t","e","r">>}

----
(* Dispatch: Application.add_handler order in main(), one group, first match wins *)

InDocSetup(u) == doc_state[u] # END
InJobSetup(u) == job_state[u] # END

\* the handler a command update of user u reaches ("none": no handler matches)
RouteCommand(u, cmd) ==
    IF cmd \in {"start", "help", "status", "alert", "suchenow"} THEN "cmd_" \o cmd
    ELSE IF ~InDocSetup(u) /\ cmd = "setup" THEN "cmd_setup"
    ELSE IF InDocSetup(u) /\ cmd = "abbrechen" THEN "setup_cancel"
    ELSE IF ~InJobSetup(u) /\ cmd = "jobsetup" THEN "cmd_jobsetup"
    ELSE IF InJobSetup(u) /\ cmd = "abbrechen" THEN "jobsetup_cancel"
    ELSE "none"

\* the handler a plain text message of user u reaches
RouteText(u, hasUrl) ==
    IF doc_state[u] = SETUP_CHOICE THEN "setup_choice"
    ELSE IF job_state[u] = JOB_TITLE THEN "jobsetup_title"
    ELSE IF job_state[u] = JOB_LOCATION THEN "jobsetup_location"
    ELSE IF job_state[u] = JOB_KEYWORDS THEN "jobsetup_keywords"
    ELSE IF job_state[u] = JOB_REMOTE THEN "jobsetup_remote"
    ELSE IF job_state[u] = JOB_TIME THEN "jobsetup_time"
    ELSE IF hasUrl THEN "handle_url"
    ELSE "handle_text"

\* the handler a message carrying a document reaches
RouteDocument(u) ==
    IF doc_state[u] = SETUP_CV THEN "setup_cv"
    ELSE IF doc_state[u] = SETUP_MUSTER THEN "setup_muster"
    ELSE "none"

\* what a completed handler step leaves in ev: the handler, the user, the kind of reply sent
\* and the input handled (the message text, <<document>>, or <<>>)
Event(h, u, reply, arg) == [h |-> h, uid |-> u, reply |-> reply, arg |-> arg]

----
(* Job-Setup ConversationHandler: src/bot.py 353-439 *)

\* what the handlers of the two conversations leave alone
digestVars == <<jobs_file, daily, upd, batches, nRuns>>
idVars == <<jobA, jobB, idA, idB>>

cmd_jobsetup(u) ==
    /\ job_state' = [job_state EXCEPT ![u] = JOB_TITLE]
    /\ ev' = Event("cmd_jobsetup", u, "ask_title", <<>>)
    /\ UNCHANGED <<user_data, ctx, doc_state, digestVars, idVars>>

jobsetup_title(u, text) ==
    /\ ctx' = [ctx EXCEPT ![u] = Put(@, "job_title", Strip(text))]
    /\ job_state' = [job_state EXCEPT ![u] = JOB_LOCATION]
    /\ ev' = Event("jobsetup_title", u, "ask_location", text)
    /\ UNCHANGED <<user_data, doc_state, digestVars, idVars>>

jobsetup_location(u, text) ==
    /\ ctx' = [ctx EXCEPT ![u] = Put(@, "job_location", Strip(text))]
    /\ job_state' = [job_state EXCEPT ![u] = JOB_KEYWORDS]
    /\ ev' = Event("jobsetup_location", u, "ask_keywords", text)
    /\ UNCHANGED <<user_data, doc_state, digestVars, idVars>>

\* jobsetup_keywords as it would be if "skip" were stored like any other answer
jobsetup_keywords_raw(u, text) ==
    /\ ctx' = [ctx EXCEPT ![u] = Put(@, "job_keywords", Strip(text))]
    /\ job_state' = [job_state EXCEPT ![u] = JOB_REMOTE]
    /\ ev' = Event("jobsetup_keywords", u, "ask_remote", text)
    /\ UNCHANGED <<user_data, doc_state, digestVars, idVars>>

jobsetup_keywords(u, text) ==
    LET raw == Strip(text)
        kw  == IF Lower(raw) = <<"s","k","i","p">> THEN <<>> ELSE raw
    IN  /\ ctx' = [ctx EXCEPT ![u] = Put(@, "job_keywords", kw)]
        /\ job_state' = [job_state EXCEPT ![u] = JOB_REMOTE]
        /\ ev' = Event("jobsetup_keywords", u, "ask_remote", text)
        /\ UNCHANGED <<user_data, doc_state, digestVars, idVars>>

\* jobsetup_remote as it would be if it stored the answers collected so far
jobsetup_remote_saving(u, text) ==
    LET yes   == Lower(Strip(text)) \in {<<"j","a">>, <<"y","e","s">>, <<"j">>, <<"y">>}
        prefs == [title |-> ctx[u]["job_title"], location |-> ctx[u]["job_location"],
                  keywords |-> Get(ctx[u], "job_keywords", <<>>), remote |-> yes]
    IN  /\ ctx' = [ctx EXCEPT ![u] = Put(@, "job_remote", yes)]
        /\ user_data' = save_user_data(u, Put(load_user_data(u), "job_prefs", prefs))
        /\ job_state' = [job_state EXCEPT ![u] = JOB_TIME]
        /\ ev' = Event("jobsetup_remote", u, "ask_time", text)
        /\ UNCHANGED <<doc_state, digestVars, idVars>>

jobsetup_remote(u, text) ==
    LET yes == Lower(Strip(text)) \in {<<"j","a">>, <<"y","e","s">>, <<"j">>, <<"y">>}
    IN  /\ ctx' = [ctx EXCEPT ![u] = Put(@, "job_remote", yes)]
        /\ job_state' = [job_state EXCEPT ![u] = JOB_TIME]
        /\ ev' = Event("jobsetup_remote", u, "ask_time", text)
        /\ UNCHANGED <<user_data, doc_state, digestVars, idVars>>

\* jobsetup_time's try block does not raise: int(parts[0]), and int(parts[1]) when there is one
TimeParses(raw) ==
    LET parts == Split(raw, ":")
    IN  /\ IntParses(parts[1])
        /\ Len(parts) > 1 => IntParses(parts[2])

\* hour and minute jobsetup_time stores for raw = text.strip().lower()
TimeHour(raw) == IF raw = <<"o","k">> THEN DAILY_HOUR ELSE IntOf(Split(raw, ":")[1])

TimeMinute(raw) ==
    IF raw = <<"o","k">> THEN DAILY_MINUTE
    ELSE IF Len(Split(raw, ":")) > 1 THEN IntOf(Split(raw, ":")[2]) ELSE 0

\* jobsetup_time as it would be if the new answers were merged into a stored preference,
\* the stored fields kept
jobsetup_time_merging(u, text) ==
    LET raw == Lower(Strip(text))
    IN  IF raw # <<"o","k">> /\ ~TimeParses(raw)
        THEN /\ ev' = Event("jobsetup_time", u, "invalid_time", text)
             /\ job_state' = [job_state EXCEPT ![u] = JOB_TIME]
             /\ UNCHANGED <<user_data, ctx, doc_state, digestVars, idVars>>
        ELSE LET data  == load_user_data(u)
                 old   == Get(data, "job_prefs", EmptyDict)
                 new   == [title    |-> ctx[u]["job_title"],
                           location |-> ctx[u]["job_location"],
                           keywords |-> Get(ctx[u], "job_keywords", <<>>),
                           remote   |-> Get(ctx[u], "job_remote", FALSE),
                           hour     |-> TimeHour(raw),
                           minute   |-> TimeMinute(raw)]
                 prefs == [k \in DOMAIN new |-> Get(old, k, new[k])]
             IN  /\ user_data' = save_user_data(u, Put(data, "job_prefs", prefs))
                 /\ job_state' = [job_state EXCEPT ![u] = END]
                 /\ ev' = Event("jobsetup_time", u, "prefs_saved", text)
                 /\ UNCHANGED <<ctx, doc_state, digestVars, idVars>>

jobsetup_time(u, text) ==
    LET raw == Lower(Strip(text))
    IN  IF raw # <<"o","k">> /\ ~TimeParses(raw)
        THEN /\ ev' = Event("jobsetup_time", u, "invalid_time", text)
             /\ job_state' = [job_state EXCEPT ![u] = JOB_TIME]
             /\ UNCHANGED <<user_data, ctx, doc_state, digestVars, idVars>>
        ELSE LET data  == load_user_data(u)
                 prefs == [title    |-> ctx[u]["job_title"],
                           location |-> ctx[u]["job_location"],
                           keywords |-> Get(ctx[u], "job_keywords", <<>>),
                           remote   |-> Get(ctx[u], "job_remote", FALSE),
                           hour     |-> TimeHour(raw),
                           minute   |-> TimeMinute(raw)]
             IN  /\ user_data' = save_user_data(u, Put(data, "job_prefs", prefs))
                 /\ job_state' = [job_state EXCEPT ![u] = END]
                 /\ ev' = Event("jobsetup_time", u, "prefs_saved", text)
                 /\ UNCHANGED <<ctx, doc_state, digestVars, idVars>>

\* jobsetup_cancel as it would be if cancelling kept the answers given so far
jobsetup_cancel_saving(u) ==
    /\ user_data' = save_user_data(u, Put(load_user_data(u), "job_prefs", ctx[u]))
    /\ job_state' = [job_state EXCEPT ![u] = END]
    /\ ev' = Event("jobsetup_cancel", u, "cancelled", <<>>)
    /\ UNCHANGED <<ctx, doc_state, digestVars, idVars>>

jobsetup_cancel(u) ==
    /\ job_state' = [job_state EXCEPT ![u] = END]
    /\ ev' = Event("jobsetup_cancel", u, "cancelled", <<>>)
    /\ UNCHANGED <<user_data, ctx, doc_state, digestVars, idVars>>

----
(* Dokument-Setup ConversationHandler: src/bot.py 443-495 *)

cmd_setup(u) ==
    /\ doc_state' = [doc_state EXCEPT ![u] = SETUP_CHOICE]
    /\ ev' = Event("cmd_setup", u, "ask_choice", <<>>)
    /\ UNCHANGED <<user_data, ctx, job_state, digestVars, idVars>>

setup_choice(u, text) ==
    LET choice == Strip(text)
    IN  /\ ctx' = [ctx EXCEPT ![u] = Put(@, "setup_choice", choice)]
        /\ IF choice \in {<<"1">>, <<"3">>}
           THEN /\ doc_state' = [doc_state EXCEPT ![u] = SETUP_CV]
                /\ ev' = Event("setup_choice", u, "ask_cv", text)
           ELSE IF choice = <<"2">>
           THEN /\ doc_state' = [doc_state EXCEPT ![u] = SETUP_MUSTER]
                /\ ev' = Event("setup_choice", u, "ask_muster", text)
           ELSE /\ doc_state' = [doc_state EXCEPT ![u] = SETUP_CHOICE]
                /\ ev' = Event("setup_choice", u, "invalid_choice", text)
        /\ UNCHANGED <<user_data, job_state, digestVars, idVars>>

\* doc: <<>> when the message carries no document, else <<decoded content of the file>>
setup_cv(u, doc) ==
    IF doc = <<>>
    THEN /\ ev' = Event("setup_cv", u, "ask_file", doc)
         /\ doc_state' = [doc_state EXCEPT ![u] = SETUP_CV]
         /\ UNCHANGED <<user_data, ctx, job_state, digestVars, idVars>>
    ELSE LET data == load_user_data(u)
         IN  /\ user_data' = save_user_data(u, Put(data, "lebenslauf", doc[1]))
             /\ IF Get(ctx[u], "setup_choice", <<>>) = <<"3">>
                THEN /\ doc_state' = [doc_state EXCEPT ![u] = SETUP_MUSTER]
                     /\ ev' = Event("setup_cv", u, "cv_saved_ask_muster", doc)
                ELSE /\ doc_state' = [doc_state EXCEPT ![u] = END]
                     /\ ev' = Event("setup_cv", u, "cv_saved", doc)
             /\ UNCHANGED <<ctx, job_state, digestVars, idVars>>

setup_muster(u, doc) ==
    IF doc = <<>>
    THEN /\ ev' = Event("setup_muster", u, "ask_file", doc)
         /\ doc_state' = [doc_state EXCEPT ![u] = SETUP_MUSTER]
         /\ UNCHANGED <<user_data, ctx, job_state, digestVars, idVars>>
    ELSE LET data == load_user_data(u)
         IN  /\ user_data' = save_user_data(u, Put(data, "muster", doc[1]))
             /\ doc_state' = [doc_state EXCEPT ![u] = END]
             /\ ev' = Event("setup_muster", u, "muster_saved", doc)
             /\ UNCHANGED <<ctx, job_state, digestVars, idVars>>

setup_cancel(u) ==
    /\ doc_state' = [doc_state EXCEPT ![u] = END]
    /\ ev' = Event("setup_cancel", u, "cancelled", <<>>)
    /\ UNCHANGED <<user_data, ctx, job_state, digestVars, idVars>>

----
(* Commands outside the conversations: src/bot.py 296-335, 598-602 *)

cmd_status(u) ==
    /\ ev' = Event("cmd_status", u, "status", <<>>)
    /\ UNCHANGED <<user_data, ctx, doc_state, job_state, digestVars, idVars>>

\* cmd_alert as it would be if it did not look for a stored preference
cmd_alert_unguarded(u) ==
    LET data    == load_user_data(u)
        current == Get(data, "job_alert_active", FALSE)
    IN  /\ user_data' = save_user_data(u, Put(data, "job_alert_active", ~current))
        /\ ev' = Event("cmd_alert", u, IF ~current THEN "alert_on" ELSE "alert_off", <<>>)
        /\ UNCHANGED <<ctx, doc_state, job_state, digestVars, idVars>>

cmd_alert(u) ==
    LET data == load_user_data(u)
    IN  IF ~HasValue(data, "job_prefs")
        THEN /\ ev' = Event("cmd_alert", u, "need_jobsetup", <<>>)
             /\ UNCHANGED <<user_data, ctx, doc_state, job_state, digestVars, idVars>>
        ELSE LET current == Get(data, "job_alert_active", FALSE)
             IN  /\ user_data' = save_user_data(u, Put(data, "job_alert_active", ~current))
                 /\ ev' = Event("cmd_alert", u, IF ~current THEN "alert_on" ELSE "alert_off", <<>>)
                 /\ UNCHANGED <<ctx, doc_state, job_state, digestVars, idVars>>

handle_text(u) ==
    /\ ev' = Event("handle_text", u, "hint", <<>>)
    /\ UNCHANGED <<user_data, ctx, doc_state, job_state, digestVars, idVars>>

----
(* Initial state: no user file, no cache file, no conversation, nothing in flight *)

Linkedin == <<"l">>
Indeed == <<"i">>

\* a posting as search_jobs_sync builds it (src/bot.py 134-142)
Posting(title, company, url, description, site) ==
    [title |-> title, company |-> company, location |-> <<"B">>, job_url |-> url,
     description |-> description, date_posted |-> <<"1">>, site |-> site]

\* what scrape_jobs did: it raised, or it gave a table of n rows (0: None or empty) cut
\* from the listings at row number `from`, or the two rows of DupRows
NoExt == [raises |-> FALSE, kind |-> "window", from |-> 1, n |-> 0]

\* a task that runs a search cycle: where it is suspended (pc) and its locals
NoTask ==
    [pc |-> "idle", at |-> "", h |-> "none", uid |-> 0, user_ids |-> <<>>, k |-> 0,
     errors |-> {}, ext |-> NoExt,
     jobs |-> <<>>, i |-> 0, sent |-> <<>>, cache_changed |-> FALSE, job |-> EmptyDict,
     data |-> EmptyDict]

InitStore ==
    /\ user_data = [u \in Users |-> EmptyDict]
    /\ jobs_file = [u \in Users |-> <<>>]

InitIdle ==
    /\ doc_state = [u \in Users |-> END]
    /\ job_state = [u \in Users |-> END]
    /\ ctx = [u \in Users |-> EmptyDict]
    /\ ev = Event("none", 0, "none", <<>>)
    /\ daily = NoTask
    /\ upd = NoTask
    /\ nUpdates = 0
    /\ nRuns = 0

InitNoBatches == batches = [u \in Users |-> <<>>]

InitNoIds ==
    /\ jobA = Posting(<<"a">>, <<"b">>, <<"u">>, <<"x">>, Linkedin)
    /\ jobB = jobA
    /\ idA = ""
    /\ idB = ""

----
(* Item identity, applied to two postings *)

IdPostings ==
    {Posting(t, c, url, d, s) : t \in {<<"a">>, <<"a","b">>}, c \in {<<"b">>, <<"b","b">>},
                                url \in {<<"u">>, <<"v">>}, d \in {<<"x">>, <<"y">>},
                                s \in {Linkedin, Indeed}}

InitId ==
    /\ jobA \in IdPostings
    /\ jobB \in IdPostings
    /\ idA = ""
    /\ idB = ""
    /\ InitStore
    /\ InitIdle
    /\ InitNoBatches

ComputeJobIds ==
    /\ idA = ""
    /\ idA' = job_id(jobA)
    /\ idB' = job_id(jobB)
    /\ UNCHANGED <<jobA, jobB, user_data, jobs_file, doc_state, job_state, ctx, ev,
                   daily, upd, batches, nUpdates, nRuns>>

NextId == ComputeJobIds

SpecId == InitId /\ [][NextId]_vars

----
(* Claim about item identity, checked under SpecId *)

SameKey(a, b) == a.title = b.title /\ a.company = b.company /\ a.job_url = b.job_url

\* C2: two postings have the same job_id if and only if they agree in title, company and url.
C2_IdIffSameKey == idA # "" => ((idA = idB) <=> SameKey(jobA, jobB))

----
(* The two conversations and the alert switch, driven by the dispatcher *)

MaxUpdates == 7

\* the dispatcher takes the next update when no handler is suspended
Receive ==
    /\ upd.pc = "idle"
    /\ nUpdates < MaxUpdates
    /\ nUpdates' = nUpdates + 1

OnJobsetup ==
    \E u \in Users : Receive /\ RouteCommand(u, "jobsetup") = "cmd_jobsetup" /\ cmd_jobsetup(u)

OnJobTitle ==
    \E u \in Users : Receive /\ RouteText(u, FALSE) = "jobsetup_title"
                     /\ \E t \in TitleInputs : jobsetup_title(u, t)

OnJobLocation ==
    \E u \in Users : Receive /\ RouteText(u, FALSE) = "jobsetup_location"
                     /\ \E t \in LocationInputs : jobsetup_location(u, t)

OnJobKeywords ==
    \E u \in Users : Receive /\ RouteText(u, FALSE) = "jobsetup_keywords"
                     /\ \E t \in KeywordInputs : jobsetup_keywords(u, t)

OnJobRemote ==
    \E u \in Users : Receive /\ RouteText(u, FALSE) = "jobsetup_remote"
                     /\ \E t \in RemoteInputs : jobsetup_remote(u, t)

OnJobTime ==
    \E u \in Users : Receive /\ RouteText(u, FALSE) = "jobsetup_time"
                     /\ \E t \in TimeInputs : jobsetup_time(u, t)

OnJobCancel ==
    \E u \in Users : Receive /\ RouteCommand(u, "abbrechen") = "jobsetup_cancel" /\ jobsetup_cancel(u)

OnSetup ==
    \E u \in Users : Receive /\ RouteCommand(u, "setup") = "cmd_setup" /\ cmd_setup(u)

OnSetupChoice ==
    \E u \in Users : Receive /\ RouteText(u, FALSE) = "setup_choice"
                     /\ \E t \in ChoiceInputs : setup_choice(u, t)

OnSetupCv ==
    \E u \in Users : Receive /\ RouteDocument(u) = "setup_cv"
                     /\ \E d \in DocTexts : setup_cv(u, <<d>>)

OnSetupMuster ==
    \E u \in Users : Receive /\ RouteDocument(u) = "setup_muster"
                     /\ \E d \in DocTexts : setup_muster(u, <<d>>)

OnSetupCancel ==
    \E u \in Users : Receive /\ RouteCommand(u, "abbrechen") = "setup_cancel" /\ setup_cancel(u)

OnAlert ==
    \E u \in Users : Receive /\ RouteCommand(u, "alert") = "cmd_alert" /\ cmd_alert(u)

OnStatus ==
    \E u \in Users : Receive /\ RouteCommand(u, "status") = "cmd_status" /\ cmd_status(u)

OnText ==
    \E u \in Users : Receive /\ RouteText(u, FALSE) = "handle_text" /\ handle_text(u)

NextConv ==
    \/ OnJobsetup
    \/ OnJobTitle
    \/ OnJobLocation
    \/ OnJobKeywords
    \/ OnJobRemote
    \/ OnJobTime
    \/ OnJobCancel
    \/ OnSetup
    \/ OnSetupChoice
    \/ OnSetupCv
    \/ OnSetupMuster
    \/ OnSetupCancel
    \/ OnAlert
    \/ OnStatus
    \/ OnText

InitConv == InitStore /\ InitIdle /\ InitNoBatches /\ InitNoIds

SpecConv == InitConv /\ [][NextConv]_vars

----
(* Claims about the conversations, checked under SpecConv *)

\* a step of SpecConv: one update was dispatched and its handler ran
Handled == nUpdates' # nUpdates

DocHandlers == {"cmd_setup", "setup_choice", "setup_cv", "setup_muster", "setup_cancel"}
JobHandlers == {"cmd_jobsetup", "jobsetup_title", "jobsetup_location", "jobsetup_keywords",
                "jobsetup_remote", "jobsetup_time", "jobsetup_cancel"}
Reprompts == {"invalid_choice", "ask_file", "invalid_time"}

\* the time-of-day validator of the specification: the acceptance token, or a time that
\* parses (as jobsetup_time parses it) to an hour in 0..23 and a minute in 0..59
TimeInputValid(text) ==
    LET raw == Lower(Strip(text))
    IN  \/ raw = <<"o","k">>
        \/ /\ TimeParses(raw)
           /\ TimeHour(raw) \in 0..23
           /\ TimeMinute(raw) \in 0..59

\* the input of event e fails the validator of the state that handled it
FailsValidator(e) ==
    \/ e.h = "setup_choice" /\ Strip(e.arg) \notin {<<"1">>, <<"2">>, <<"3">>}
    \/ e.h \in {"setup_cv", "setup_muster"} /\ e.arg = <<>>
    \/ e.h = "jobsetup_time" /\ ~TimeInputValid(e.arg)

\* C4: an input that fails its state's validator leaves both conversation states and the
\* Profile Store unchanged and is answered by a re-prompt.
C4_NeverCommitsOnInvalid ==
    [][(Handled /\ FailsValidator(ev'))
        => /\ doc_state' = doc_state
           /\ job_state' = job_state
           /\ user_data' = user_data
           /\ ev'.reply \in Reprompts]_vars

\* C5: every stored preference has hour in 0..23 and minute in 0..59 (the time state
\* commits only on "ok" or an HH:MM in range).
C5_StoredTimeInRange ==
    \A u \in Users :
        HasValue(user_data[u], "job_prefs")
            => /\ user_data[u]["job_prefs"]["hour"] \in 0..23
               /\ user_data[u]["job_prefs"]["minute"] \in 0..59

\* C6: a cancel step ends the conversation it is dispatched to, which was in progress, and
\* changes nothing in the Profile Store (nor in the cache files).
C6_CancelWritesNothing ==
    [][(Handled /\ ev'.h \in {"setup_cancel", "jobsetup_cancel"})
        => /\ user_data' = user_data
           /\ jobs_file' = jobs_file
           /\ ev'.h = "setup_cancel"
                => doc_state[ev'.uid] # END /\ doc_state'[ev'.uid] = END /\ job_state' = job_state
           /\ ev'.h = "jobsetup_cancel"
                => job_state[ev'.uid] # END /\ job_state'[ev'.uid] = END /\ doc_state' = doc_state]_vars

\* C6 witness: the preference flow was cancelled in its last state, all other answers given,
\* and no preference is stored.
C6_Witness ==
    /\ ev.h = "jobsetup_cancel"
    /\ "job_remote" \in DOMAIN ctx[ev.uid]
    /\ ~HasValue(user_data[ev.uid], "job_prefs")

OnlyFieldWritten(u, k) ==
    /\ \A v \in Users \ {u} : user_data'[v] = user_data[v]
    /\ DOMAIN user_data'[u] = DOMAIN user_data[u] \cup {k}
    /\ \A x \in DOMAIN user_data[u] \ {k} : user_data'[u][x] = user_data[u][x]

----
(* What the external job search can give *)

MaxRows == 11

\* row number k of the scraped table, its title still padded with a blank
RawRow(k) == Posting(<<" ", LowerLetters[k]>>, <<"b">>, <<"u">>, <<"x">>, Linkedin)

Window(from, n) == [i \in 1..n |-> RawRow(from + i - 1)]

\* two rows with the same title, company and url and different descriptions
DupRows == <<RawRow(1), [RawRow(1) EXCEPT !.description = <<"y">>]>>

\* the rows of the table scrape_jobs gave (<<>>: None or an empty table)
Rows(ext) == IF ext.kind = "dup" THEN DupRows ELSE Window(ext.from, ext.n)

\* the search raises, finds nothing, finds two rows, finds more rows than a batch holds,
\* or finds two rows of one posting
SearchOutcomes ==
    {[NoExt EXCEPT !.raises = TRUE], NoExt,
     [NoExt EXCEPT !.from = 2, !.n = 2], [NoExt EXCEPT !.n = MaxRows],
     [NoExt EXCEPT !.kind = "dup", !.n = 2]}

----
(* Job search and the item cache: src/bot.py 85-150 *)

MaxJobs == 10
DescLimit == 4000

Min(a, b) == IF a < b THEN a ELSE b

\* one row of the scraped table as search_jobs_sync turns it into a posting dict
NormalizeRow(row) ==
    [title       |-> Strip(row.title),
     company     |-> Strip(row.company),
     location    |-> Strip(row.location),
     job_url     |-> Strip(row.job_url),
     description |-> Strip(SubSeq(row.description, 1, Min(Len(row.description), DescLimit))),
     date_posted |-> Strip(row.date_posted),
     site        |-> Strip(row.site)]

\* the loop over df.iterrows(): append, and stop once MaxJobs postings are collected
RECURSIVE CollectJobs(_, _)
CollectJobs(rows, jobs) ==
    IF rows = <<>> THEN jobs
    ELSE LET more == Append(jobs, NormalizeRow(Head(rows)))
         IN  IF Len(more) >= MaxJobs THEN more ELSE CollectJobs(Tail(rows), more)

\* search_jobs_sync as it would be if a failed search were tried again and then gave a row
search_jobs_sync_retrying(ext) ==
    IF ext.raises THEN CollectJobs(Window(1, 1), <<>>)
    ELSE IF Rows(ext) = <<>> THEN <<>>
    ELSE CollectJobs(Rows(ext), <<>>)

search_jobs_sync(ext) ==
    IF ext.raises THEN <<>>
    ELSE IF Rows(ext) = <<>> THEN <<>>
    ELSE CollectJobs(Rows(ext), <<>>)

\* {job_id(j): j for j in jobs}: a later posting replaces an earlier one with the same id
CacheDict(jobs) ==
    [jid \in {job_id(jobs[n]) : n \in 1..Len(jobs)} |->
        jobs[CHOOSE n \in 1..Len(jobs) :
                /\ job_id(jobs[n]) = jid
                /\ \A m \in (n + 1)..Len(jobs) : job_id(jobs[m]) # jid]]

\* save_job_cache as it would be if it merged the batch into the file's dict
save_job_cache_merging(u, jobs) ==
    LET old == IF jobs_file[u] = <<>> THEN EmptyDict ELSE jobs_file[u][1]
        new == CacheDict(jobs)
    IN  [jobs_file EXCEPT ![u] =
            <<[jid \in DOMAIN old \cup DOMAIN new |-> IF jid \in DOMAIN new THEN new[jid] ELSE old[jid]]>>]

save_job_cache(u, jobs) == [jobs_file EXCEPT ![u] = <<CacheDict(jobs)>>]

\* the cached posting, or <<>> for None
load_job_from_cache(u, jid) ==
    IF jobs_file[u] = <<>> THEN <<>>
    ELSE Get(jobs_file[u][1], jid, <<>>)

\* load_all_users as it would be if the alert switch were not looked at
load_all_users_any_alert == {u \in Users : HasValue(user_data[u], "job_prefs")}

\* load_all_users: the users whose record holds job_prefs and an active alert
load_all_users ==
    {u \in Users : HasValue(user_data[u], "job_prefs") /\ IsTrue(user_data[u], "job_alert_active")}

\* the orders in which DATA_DIR.glob may list a set of users
Orderings(S) ==
    {q \in [1..Cardinality(S) -> S] : \A a, b \in 1..Cardinality(S) : a # b => q[a] # q[b]}

----
(* send_jobs_to_user: src/bot.py 212-248 *)

\* one call of send_message: the kind of notice, whether the call returned (ok) or raised,
\* and for a posting its number in the batch and the id in its callback data
Notice(kind, ok, n, jid) == [kind |-> kind, ok |-> ok, n |-> n, jid |-> jid]

\* send_jobs_to_user as it would be if it did not write the cache
SendJobsCache_never(u, jobs) == jobs_file

\* send_jobs_to_user as it would be if an empty batch were cached too
SendJobsCache_always(u, jobs) == save_job_cache(u, jobs)

\* the cache files after send_jobs_to_user's first segment
SendJobsCache(u, jobs) == IF jobs = <<>> THEN jobs_file ELSE save_job_cache(u, jobs)

\* task t calls send_jobs_to_user(u, jobs): up to its first await
SendJobsBegin(t, u, jobs) ==
    [t EXCEPT !.jobs = jobs,
              !.i = 0,
              !.cache_changed = (SendJobsCache(u, jobs)[u] # jobs_file[u]),
              !.pc = IF jobs = <<>> THEN "await_no_results" ELSE "await_header"]

SendPcs == {"await_no_results", "await_header", "await_job", "await_sleep"}

\* an awaited call of task t raised: the exception leaves the coroutine at t.pc
Raise(t) == [t EXCEPT !.at = t.pc, !.pc = "raised"]

\* send_jobs_to_user as it would be without the sleep after a posting's message
SendJobsResume_unpaced(t, ok) ==
    IF t.pc = "await_no_results"
    THEN LET t2 == [t EXCEPT !.sent = Append(@, Notice("no_results", ok, 0, ""))]
         IN  IF ok THEN [t2 EXCEPT !.pc = "returned"] ELSE Raise(t2)
    ELSE IF t.pc = "await_header"
    THEN LET t2 == [t EXCEPT !.sent = Append(@, Notice("header", ok, 0, ""))]
         IN  IF ok THEN [t2 EXCEPT !.i = 1, !.pc = "await_job"] ELSE Raise(t2)
    ELSE IF t.pc = "await_job"
    THEN LET t2 == [t EXCEPT !.sent = Append(@, Notice("job", ok, t.i, job_id(t.jobs[t.i])))]
         IN  IF ~ok THEN Raise(t2)
             ELSE IF t.i < Len(t.jobs) THEN [t2 EXCEPT !.i = @ + 1] ELSE [t2 EXCEPT !.pc = "returned"]
    ELSE [t EXCEPT !.pc = "returned"]

\* task t, suspended in send_jobs_to_user, resumes: the awaited call returned (ok) or raised
SendJobsResume(t, ok) ==
    IF t.pc = "await_no_results"
    THEN LET t2 == [t EXCEPT !.sent = Append(@, Notice("no_results", ok, 0, ""))]
         IN  IF ok THEN [t2 EXCEPT !.pc = "returned"] ELSE Raise(t2)
    ELSE IF t.pc = "await_header"
    THEN LET t2 == [t EXCEPT !.sent = Append(@, Notice("header", ok, 0, ""))]
         IN  IF ok THEN [t2 EXCEPT !.i = 1, !.pc = "await_job"] ELSE Raise(t2)
    ELSE IF t.pc = "await_job"
    THEN LET t2 == [t EXCEPT !.sent = Append(@, Notice("job", ok, t.i, job_id(t.jobs[t.i])))]
         IN  IF ok THEN [t2 EXCEPT !.pc = "await_sleep"] ELSE Raise(t2)
    ELSE IF t.i < Len(t.jobs)
         THEN [t EXCEPT !.i = @ + 1, !.pc = "await_job"]
         ELSE [t EXCEPT !.pc = "returned"]

\* the id sets of u's last two searched batches, after a search gave jobs
NoteBatch(u, jobs) ==
    LET ids == {job_id(jobs[n]) : n \in 1..Len(jobs)}
        old == batches[u]
    IN  [batches EXCEPT ![u] = IF old = <<>> THEN <<ids>> ELSE <<old[Len(old)], ids>>]

----
(* daily_job_search: src/bot.py 252-267 *)

\* the run reaches user number k of user_ids: load the record, send the "searching" notice;
\* errors: the users logger.error has named so far in this run
BeginCycle(order, k, errors) ==
    [NoTask EXCEPT !.pc = "await_searching", !.h = "daily_job_search",
                   !.uid = order[k], !.user_ids = order, !.k = k, !.errors = errors,
                   !.data = load_user_data(order[k])]

\* the run is over after user number t.k
DailyReturn(t) ==
    [NoTask EXCEPT !.pc = "finished", !.h = "daily_job_search",
                   !.user_ids = t.user_ids, !.k = t.k, !.errors = t.errors]

\* the for loop goes on after the cycle of user number t.k
DailyAdvance(t) ==
    IF t.k < Len(t.user_ids) THEN BeginCycle(t.user_ids, t.k + 1, t.errors) ELSE DailyReturn(t)

\* the except clause as it would be if an exception ended the run
DailyOnException_aborting(t) == DailyReturn([t EXCEPT !.errors = @ \cup {t.uid}])

\* except Exception: log and go on with the next user
DailyOnException(t) == DailyAdvance([t EXCEPT !.errors = @ \cup {t.uid}])

MaxRuns == 1

DailyTrigger ==
    /\ daily.pc \in {"idle", "finished"}
    /\ nRuns < MaxRuns
    /\ nRuns' = nRuns + 1
    /\ \E order \in Orderings(load_all_users) :
          daily' = IF order = <<>>
                   THEN [NoTask EXCEPT !.pc = "finished", !.h = "daily_job_search"]
                   ELSE BeginCycle(order, 1, {})
    /\ UNCHANGED <<user_data, jobs_file, doc_state, job_state, ctx, ev, upd, batches,
                   nUpdates, idVars>>

DailySearchingNotice ==
    /\ daily.pc = "await_searching"
    /\ \E ok \in BOOLEAN :
          LET t2 == [daily EXCEPT !.sent = <<Notice("searching", ok, 0, "")>>]
          IN  daily' = IF ok THEN [t2 EXCEPT !.pc = "await_search"] ELSE Raise(t2)
    /\ UNCHANGED <<user_data, jobs_file, doc_state, job_state, ctx, ev, upd, batches,
                   nUpdates, nRuns, idVars>>

DailySearchDone ==
    /\ daily.pc = "await_search"
    /\ \E ext \in SearchOutcomes :
          LET jobs == search_jobs_sync(ext)
          IN  /\ daily' = SendJobsBegin([daily EXCEPT !.ext = ext], daily.uid, jobs)
              /\ jobs_file' = SendJobsCache(daily.uid, jobs)
              /\ batches' = NoteBatch(daily.uid, jobs)
    /\ UNCHANGED <<user_data, doc_state, job_state, ctx, ev, upd, nUpdates, nRuns, idVars>>

DailySend ==
    /\ daily.pc \in {"await_no_results", "await_header", "await_job"}
    /\ \E ok \in BOOLEAN : daily' = SendJobsResume(daily, ok)
    /\ UNCHANGED <<user_data, jobs_file, doc_state, job_state, ctx, ev, upd, batches,
                   nUpdates, nRuns, idVars>>

DailySleep ==
    /\ daily.pc = "await_sleep"
    /\ daily' = SendJobsResume(daily, TRUE)
    /\ UNCHANGED <<user_data, jobs_file, doc_state, job_state, ctx, ev, upd, batches,
                   nUpdates, nRuns, idVars>>

\* the try statement of the current user is left: normally, or through the except clause
DailyNext ==
    /\ daily.pc \in {"returned", "raised"}
    /\ daily' = IF daily.pc = "raised" THEN DailyOnException(daily) ELSE DailyAdvance(daily)
    /\ UNCHANGED <<user_data, jobs_file, doc_state, job_state, ctx, ev, upd, batches,
                   nUpdates, nRuns, idVars>>

----
(* cmd_suchenow: src/bot.py 337-349 *)

cmd_suchenow(u) ==
    LET data == load_user_data(u)
    IN  IF ~HasValue(data, "job_prefs")
        THEN /\ ev' = Event("cmd_suchenow", u, "need_jobsetup", <<>>)
             /\ UNCHANGED upd
        ELSE /\ ev' = Event("cmd_suchenow", u, "searching", <<>>)
             /\ upd' = [NoTask EXCEPT !.pc = "await_searching", !.h = "cmd_suchenow", !.uid = u]

SuchenowSearchingNotice ==
    /\ upd.h = "cmd_suchenow" /\ upd.pc = "await_searching"
    /\ \E ok \in BOOLEAN :
          LET t2 == [upd EXCEPT !.sent = <<Notice("searching", ok, 0, "")>>]
          IN  upd' = IF ok THEN [t2 EXCEPT !.pc = "await_search"] ELSE Raise(t2)
    /\ UNCHANGED <<user_data, jobs_file, doc_state, job_state, ctx, ev, daily, batches,
                   nUpdates, nRuns, idVars>>

SuchenowSearchDone ==
    /\ upd.h = "cmd_suchenow" /\ upd.pc = "await_search"
    /\ \E ext \in SearchOutcomes :
          upd' = [upd EXCEPT !.ext = ext, !.jobs = search_jobs_sync(ext), !.pc = "await_delete"]
    /\ UNCHANGED <<user_data, jobs_file, doc_state, job_state, ctx, ev, daily, batches,
                   nUpdates, nRuns, idVars>>

\* await msg.delete(), then send_jobs_to_user up to its first await
SuchenowDeleted ==
    /\ upd.h = "cmd_suchenow" /\ upd.pc = "await_delete"
    /\ \E ok \in BOOLEAN :
          IF ok
          THEN /\ upd' = SendJobsBegin(upd, upd.uid, upd.jobs)
               /\ jobs_file' = SendJobsCache(upd.uid, upd.jobs)
               /\ batches' = NoteBatch(upd.uid, upd.jobs)
          ELSE /\ upd' = Raise(upd)
               /\ UNCHANGED <<jobs_file, batches>>
    /\ UNCHANGED <<user_data, doc_state, job_state, ctx, ev, daily, nUpdates, nRuns, idVars>>

SuchenowSend ==
    /\ upd.h = "cmd_suchenow"
    /\ upd.pc \in {"await_no_results", "await_header", "await_job"}
    /\ \E ok \in BOOLEAN : upd' = SendJobsResume(upd, ok)
    /\ UNCHANGED <<user_data, jobs_file, doc_state, job_state, ctx, ev, daily, batches,
                   nUpdates, nRuns, idVars>>

SuchenowSleep ==
    /\ upd.h = "cmd_suchenow" /\ upd.pc = "await_sleep"
    /\ upd' = SendJobsResume(upd, TRUE)
    /\ UNCHANGED <<user_data, jobs_file, doc_state, job_state, ctx, ev, daily, batches,
                   nUpdates, nRuns, idVars>>

\* the handler's coroutine is over: send_jobs_to_user returned, or an exception left the handler
SuchenowEnds ==
    /\ upd.h = "cmd_suchenow" /\ upd.pc \in {"returned", "raised"}
    /\ upd' = NoTask
    /\ UNCHANGED <<user_data, jobs_file, doc_state, job_state, ctx, ev, daily, batches,
                   nUpdates, nRuns, idVars>>

----
(* callback_anschreiben: src/bot.py 499-554 *)

\* the resolver as it would be if a cache miss were not checked
CallbackOutcome_unchecked(u, jid) ==
    LET data == load_user_data(u)
    IN  IF ~HasValue(data, "lebenslauf") \/ ~HasValue(data, "muster") THEN "need_setup"
        ELSE "generate"

\* which way callback_anschreiben goes for the callback data "anschreiben:<u>:<jid>"
CallbackOutcome(u, jid) ==
    LET data == load_user_data(u)
    IN  IF ~HasValue(data, "lebenslauf") \/ ~HasValue(data, "muster") THEN "need_setup"
        ELSE IF load_job_from_cache(u, jid) = <<>> THEN "stale"
        ELSE "generate"

callback_anschreiben(u, jid) ==
    LET way == CallbackOutcome(u, jid)
    IN  IF way = "generate"
        THEN /\ ev' = Event("callback_anschreiben", u, "creating", <<jid>>)
             /\ upd' = [NoTask EXCEPT !.pc = "await_generate", !.h = "callback_anschreiben",
                                      !.uid = u, !.job = load_job_from_cache(u, jid)]
        ELSE /\ ev' = Event("callback_anschreiben", u, way, <<jid>>)
             /\ UNCHANGED upd

----
(* handle_url: src/bot.py 558-596 *)

\* handle_url as it would be if the stored documents were not checked
handle_url_unchecked(u) ==
    /\ ev' = Event("handle_url", u, "loading", <<>>)
    /\ upd' = [NoTask EXCEPT !.pc = "await_fetch", !.h = "handle_url", !.uid = u]

handle_url(u) ==
    LET data == load_user_data(u)
    IN  IF ~HasValue(data, "lebenslauf") \/ ~HasValue(data, "muster")
        THEN /\ ev' = Event("handle_url", u, "need_setup", <<>>)
             /\ UNCHANGED upd
        ELSE /\ ev' = Event("handle_url", u, "loading", <<>>)
             /\ upd' = [NoTask EXCEPT !.pc = "await_fetch", !.h = "handle_url", !.uid = u]

\* fetch_url_text returned (ok) or raised
FetchDone ==
    /\ upd.pc = "await_fetch"
    /\ \E ok \in BOOLEAN :
          IF ok
          THEN /\ ev' = Event(upd.h, upd.uid, "generating", <<>>)
               /\ upd' = [upd EXCEPT !.pc = "await_generate"]
          ELSE /\ ev' = Event(upd.h, upd.uid, "fetch_failed", <<>>)
               /\ upd' = NoTask
    /\ UNCHANGED <<user_data, jobs_file, doc_state, job_state, ctx, daily, batches,
                   nUpdates, nRuns, idVars>>

----
(* Generation and delivery of the letter: src/bot.py 529-554, 575-596 *)

InlineLimit == 4096

\* len(header) of callback_anschreiben: the fixed text, the title and the company
CallbackHeaderLen(job) == 17 + Len(job.title) + 3 + Len(job.company) + 34

\* len(header) of handle_url
UrlHeaderLen == 54

HeaderLen(t) == IF t.h = "callback_anschreiben" THEN CallbackHeaderLen(t.job) ELSE UrlHeaderLen

\* a posting with a title and a company of one character, as the searches here give
ShortJob == NormalizeRow(RawRow(1))

\* len(anschreiben): from the longest body that goes inline after the longer header to the
\* shortest body that does not go inline after the shorter header
BodyLens == (InlineLimit - CallbackHeaderLen(ShortJob))..(InlineLimit - UrlHeaderLen + 1)

\* what generate_anschreiben did: it raised, or it returned a text of len characters
GenOutcomes ==
    {[raises |-> TRUE, len |-> 0]} \cup {[raises |-> FALSE, len |-> n] : n \in BodyLens}

\* the delivery as it would be if a text too long for a message were cut to fit
Deliver_cutting(t, gen) ==
    IF gen.raises THEN Event(t.h, t.uid, "generation_failed", <<gen, 0>>)
    ELSE Event(t.h, t.uid, "inline", <<gen, Min(gen.len, InlineLimit - HeaderLen(t))>>)

\* the delivery as it would be if the except clause did not return
Deliver_after_failure(t, gen) ==
    IF HeaderLen(t) + gen.len <= InlineLimit
    THEN Event(t.h, t.uid, "inline", <<gen, gen.len>>)
    ELSE Event(t.h, t.uid, "document", <<gen, gen.len>>)

\* what the handler sends once generate_anschreiben is over: the error, the full text in a
\* message, or the body as a file; arg: the outcome handled and the length of body sent
Deliver(t, gen) ==
    IF gen.raises THEN Event(t.h, t.uid, "generation_failed", <<gen, 0>>)
    ELSE IF HeaderLen(t) + gen.len <= InlineLimit
    THEN Event(t.h, t.uid, "inline", <<gen, gen.len>>)
    ELSE Event(t.h, t.uid, "document", <<gen, gen.len>>)

\* generate_anschreiben returned or raised: the letter or the error is sent
GenerateDone ==
    /\ upd.pc = "await_generate"
    /\ \E gen \in GenOutcomes : ev' = Deliver(upd, gen)
    /\ upd' = NoTask
    /\ UNCHANGED <<user_data, jobs_file, doc_state, job_state, ctx, daily, batches,
                   nUpdates, nRuns, idVars>>

----
(* The digest, the on-demand search and the resolver, running together *)

MaxDigestUpdates == 1

ReceiveDigest ==
    /\ upd.pc = "idle"
    /\ nUpdates < MaxDigestUpdates
    /\ nUpdates' = nUpdates + 1

\* the item ids a callback may carry: cached at some time, or never cached
CallbackIds ==
    {job_id(NormalizeRow(RawRow(1))), job_id(NormalizeRow(RawRow(MaxJobs + 1)))}

DigestSuchenow ==
    \E u \in Users :
        /\ ReceiveDigest
        /\ RouteCommand(u, "suchenow") = "cmd_suchenow"
        /\ cmd_suchenow(u)
        /\ UNCHANGED <<user_data, jobs_file, doc_state, job_state, ctx, daily, batches,
                       nRuns, idVars>>

DigestCallback ==
    \E u \in Users, jid \in CallbackIds :
        /\ ReceiveDigest
        /\ callback_anschreiben(u, jid)
        /\ UNCHANGED <<user_data, jobs_file, doc_state, job_state, ctx, daily, batches,
                       nRuns, idVars>>

DigestAlert ==
    \E u \in Users : ReceiveDigest /\ RouteCommand(u, "alert") = "cmd_alert" /\ cmd_alert(u)

DigestUrl ==
    \E u \in Users :
        /\ ReceiveDigest
        /\ RouteText(u, TRUE) = "handle_url"
        /\ handle_url(u)
        /\ UNCHANGED <<user_data, jobs_file, doc_state, job_state, ctx, daily, batches,
                       nRuns, idVars>>

Prefs0 ==
    [title |-> DataAnalyst, location |-> Berlin, keywords |-> <<>>, remote |-> FALSE,
     hour |-> DAILY_HOUR, minute |-> DAILY_MINUTE]

\* records the two conversations and /alert can have left behind
FullProfile ==
    [lebenslauf |-> <<"c","v">>, muster |-> <<"m","u","s","t","e","r">>,
     job_prefs |-> Prefs0, job_alert_active |-> TRUE]
NoSampleProfile == [lebenslauf |-> <<"c","v">>, job_prefs |-> Prefs0, job_alert_active |-> TRUE]
NoPrefsProfile == [lebenslauf |-> <<"c","v">>, muster |-> <<"m","u","s","t","e","r">>]

\* the batch an earlier search has left in a user's cache file
EarlierBatch == search_jobs_sync([NoExt EXCEPT !.n = 1])

\* user 1 has both documents, preferences and a cache file; user 2 lacks the sample or the
\* preferences and has no cache file
InitDigest ==
    /\ user_data \in {<<FullProfile, NoSampleProfile>>, <<FullProfile, NoPrefsProfile>>}
    /\ jobs_file = <<<<CacheDict(EarlierBatch)>>, <<>>>>
    /\ batches = <<<<{job_id(EarlierBatch[n]) : n \in 1..Len(EarlierBatch)}>>, <<>>>>
    /\ InitIdle
    /\ InitNoIds

\* the scheduled run, with /alert arriving while it runs
NextRun ==
    \/ DailyTrigger
    \/ DailySearchingNotice
    \/ DailySearchDone
    \/ DailySend
    \/ DailySleep
    \/ DailyNext
    \/ DigestAlert

DailyStep == DailySearchingNotice \/ DailySearchDone \/ DailySend \/ DailySleep \/ DailyNext

\* every awaited call of the run returns or raises, and the event loop resumes the run
SpecRun == InitDigest /\ [][NextRun]_vars /\ WF_vars(DailyStep)

\* the scheduled run alone
NextSchedule ==
    \/ DailyTrigger
    \/ DailySearchingNotice
    \/ DailySearchDone
    \/ DailySend
    \/ DailySleep
    \/ DailyNext

SpecSchedule == InitDigest /\ [][NextSchedule]_vars /\ WF_vars(DailyStep)

\* the scheduled run, with button presses arriving while it runs
NextDaily ==
    \/ DailyTrigger
    \/ DailySearchingNotice
    \/ DailySearchDone
    \/ DailySend
    \/ DailySleep
    \/ DailyNext
    \/ DigestCallback
    \/ GenerateDone

SpecDaily == InitDigest /\ [][NextDaily]_vars

\* searches on demand and button presses, one update after the other
NextOnDemand ==
    \/ DigestSuchenow
    \/ SuchenowSearchingNotice
    \/ SuchenowSearchDone
    \/ SuchenowDeleted
    \/ SuchenowSend
    \/ SuchenowSleep
    \/ SuchenowEnds
    \/ DigestCallback
    \/ GenerateDone
    \/ DigestUrl
    \/ FetchDone

\* as InitDigest, and user 2 may have a cache file of an earlier search too
InitOnDemand ==
    /\ user_data \in {<<FullProfile, NoSampleProfile>>, <<FullProfile, NoPrefsProfile>>}
    /\ \E cached \in {{1}, Users} :
          /\ jobs_file = [u \in Users |-> IF u \in cached THEN <<CacheDict(EarlierBatch)>> ELSE <<>>]
          /\ batches = [u \in Users |->
                           IF u \in cached
                           THEN <<{job_id(EarlierBatch[n]) : n \in 1..Len(EarlierBatch)}>>
                           ELSE <<>>]
    /\ InitIdle
    /\ InitNoIds

SpecOnDemand == InitOnDemand /\ [][NextOnDemand]_vars

----
(* Claims about the cache and the resolver, checked under SpecDaily *)

HasBothDocuments(u) ==
    HasValue(load_user_data(u), "lebenslauf") /\ HasValue(load_user_data(u), "muster")

\* the ids of u's batch before the last one that the last batch does not hold
DroppedIds(u) == batches[u][1] \ batches[u][2]

\* C1 as stated: after a second search for a user with both documents, whatever the second
\* batch is, every id of the first batch that is not in the second resolves as stale.
C1_ReplaceIsTotal ==
    \A u \in Users :
        (Len(batches[u]) = 2 /\ HasBothDocuments(u)) =>
            \A jid \in DroppedIds(u) : CallbackOutcome(u, jid) = "stale"

\* C1 amended: after a second search for a user with both documents that gave a batch which
\* is not empty, every id of the first batch that is not in the second resolves as stale.
C1_ReplaceByNonEmptyBatch ==
    \A u \in Users :
        (Len(batches[u]) = 2 /\ batches[u][2] # {} /\ HasBothDocuments(u)) =>
            \A jid \in DroppedIds(u) : CallbackOutcome(u, jid) = "stale"

\* a button of the first batch was pressed after the second batch replaced the cache
C1_Witness ==
    /\ ev.h = "callback_anschreiben" /\ ev.reply = "stale"
    /\ Len(batches[ev.uid]) = 2
    /\ batches[ev.uid][2] # {}
    /\ ev.arg[1] \in DroppedIds(ev.uid)

\* the first Min(n, MaxJobs) postings of the table the search of the run's current user gave
FirstPostings ==
    [n \in 1..Min(Len(Rows(daily.ext)), MaxJobs) |-> NormalizeRow(Rows(daily.ext)[n])]

\* the ids in the callback data of the posting notices the current cycle sent, in order
NotifiedIds ==
    LET at == {n \in 1..Len(daily.sent) : daily.sent[n].kind = "job"}
    IN  [n \in 1..Cardinality(at) |->
            daily.sent[CHOOSE m \in at : Cardinality({x \in at : x <= m}) = n].jid]

\* C8: in every digest cycle whose search gave n postings, the postings written to the
\* user's cache are the first min(n, 10) of them (one entry each), and when the cycle has
\* returned the postings notified are these, in source order.
C8_Truncation ==
    /\ daily.pc = "await_header" =>
          /\ jobs_file[daily.uid] # <<>>
          /\ Cardinality(DOMAIN jobs_file[daily.uid][1]) = Len(FirstPostings)
          /\ \A n \in 1..Len(FirstPostings) :
                load_job_from_cache(daily.uid, job_id(FirstPostings[n])) = FirstPostings[n]
    /\ (daily.pc = "returned" /\ daily.jobs # <<>>) =>
          NotifiedIds = [n \in 1..Len(FirstPostings) |-> job_id(FirstPostings[n])]

KindCount(sent, kind) == Cardinality({n \in 1..Len(sent) : sent[n].kind = kind})

\* the search of the run's current user is over and gave no posting
EmptyCycle ==
    /\ daily.jobs = <<>>
    /\ \/ daily.pc \in {"await_no_results", "returned"}
       \/ daily.pc = "raised" /\ daily.at = "await_no_results"

\* C9: when the search for a user gave no posting, the cycle calls send_message for the
\* "no results" notice exactly once, for no header and no posting, and writes no cache.
C9_EmptyDigest ==
    EmptyCycle =>
        /\ ~daily.cache_changed
        /\ KindCount(daily.sent, "header") = 0
        /\ KindCount(daily.sent, "job") = 0
        /\ KindCount(daily.sent, "no_results") = IF daily.pc = "await_no_results" THEN 0 ELSE 1

\* a cycle whose search found nothing has returned, and the user's cache file is as it was
C9_Witness ==
    /\ daily.pc = "returned" /\ daily.jobs = <<>> /\ ~daily.ext.raises
    /\ daily.sent[Len(daily.sent)] = Notice("no_results", TRUE, 0, "")
    /\ jobs_file[daily.uid] = <<CacheDict(EarlierBatch)>>

\* an update was dispatched to callback_anschreiben
CallbackHandled == nUpdates' # nUpdates /\ ev'.h = "callback_anschreiben"

\* C10: for a user with both documents, a callback whose id is not in the user's cache, or
\* whose user has no cache file, is answered with the stale rejection, starts no
\* generation and ends the handler.
C10_StaleReference ==
    [][(/\ CallbackHandled
        /\ HasBothDocuments(ev'.uid)
        /\ load_job_from_cache(ev'.uid, ev'.arg[1]) = <<>>)
       => (ev'.reply = "stale" /\ upd' = NoTask)]_vars

\* a button was pressed whose id the cache file of its user does not hold
C10_Witness ==
    /\ ev.h = "callback_anschreiben" /\ ev.reply = "stale"
    /\ upd = NoTask
    /\ jobs_file[ev.uid] # <<>>
    /\ ev.arg[1] \notin DOMAIN jobs_file[ev.uid][1]

\* the handlers that write a user's record, and those that only read it, one update after
\* the other, for users who have used the bot before
NextProfile ==
    \/ OnJobsetup
    \/ OnJobTitle
    \/ OnJobLocation
    \/ OnJobKeywords
    \/ OnJobRemote
    \/ OnJobTime
    \/ OnSetup
    \/ OnSetupChoice
    \/ OnSetupCv
    \/ OnSetupMuster
    \/ OnAlert
    \/ OnStatus
    \/ DigestCallback
    \/ GenerateDone
    \/ DigestUrl
    \/ FetchDone

SpecProfile == InitDigest /\ [][NextProfile]_vars

----
(* Handlers that overlap: an upload suspended at its awaits while other updates are handled.
   setup_cv, setup_muster: src/bot.py 465-491 *)

\* an update is taken whether or not a handler is suspended
ReceiveOverlapping ==
    /\ nUpdates < MaxUpdates
    /\ nUpdates' = nUpdates + 1

\* the record an upload writes into, as it would be if it were not read after the download
UploadRecord_unread(t) == t.data

\* data = load_user_data(uid), after the awaits of the upload handler
UploadRecord(t) == load_user_data(t.uid)

UploadField(t) == IF t.h = "setup_cv" THEN "lebenslauf" ELSE "muster"

\* a document reaches setup_cv or setup_muster, which awaits the reply "Verarbeite..."
OverlapUpload ==
    \E u \in Users :
        /\ ReceiveOverlapping
        /\ upd.pc = "idle"
        /\ RouteDocument(u) \in {"setup_cv", "setup_muster"}
        /\ upd' = [NoTask EXCEPT !.pc = "await_processing", !.h = RouteDocument(u), !.uid = u]
        /\ ev' = Event(RouteDocument(u), u, "received", <<>>)
        /\ UNCHANGED <<user_data, jobs_file, doc_state, job_state, ctx, daily, batches,
                       nRuns, idVars>>

\* the reply was sent and download_telegram_file is awaited, or the reply raised
UploadProcessing ==
    /\ upd.pc = "await_processing"
    /\ \E ok \in BOOLEAN :
          IF ok
          THEN /\ upd' = [upd EXCEPT !.pc = "await_download"]
               /\ ev' = Event(upd.h, upd.uid, "processing", <<>>)
          ELSE /\ upd' = NoTask
               /\ ev' = Event(upd.h, upd.uid, "raised", <<>>)
    /\ UNCHANGED <<user_data, jobs_file, doc_state, job_state, ctx, daily, batches,
                   nUpdates, nRuns, idVars>>

\* download_telegram_file returned the text d, which is stored, or it raised
UploadDone ==
    /\ upd.pc = "await_download"
    /\ \/ \E d \in DocTexts :
             LET u    == upd.uid
                 both == upd.h = "setup_cv" /\ Get(ctx[u], "setup_choice", <<>>) = <<"3">>
             IN  /\ user_data' = save_user_data(u, Put(UploadRecord(upd), UploadField(upd), d))
                 /\ doc_state' = [doc_state EXCEPT ![u] = IF both THEN SETUP_MUSTER ELSE END]
                 /\ ev' = Event(upd.h, u,
                                IF both THEN "cv_saved_ask_muster"
                                ELSE IF upd.h = "setup_cv" THEN "cv_saved" ELSE "muster_saved",
                                <<d>>)
       \/ /\ ev' = Event(upd.h, upd.uid, "raised", <<>>)
          /\ UNCHANGED <<user_data, doc_state>>
    /\ upd' = NoTask
    /\ UNCHANGED <<jobs_file, job_state, ctx, daily, batches, nUpdates, nRuns, idVars>>

OverlapAlert ==
    \E u \in Users : ReceiveOverlapping /\ RouteCommand(u, "alert") = "cmd_alert" /\ cmd_alert(u)

OverlapJobTime ==
    \E u \in Users : ReceiveOverlapping /\ RouteText(u, FALSE) = "jobsetup_time"
                     /\ \E t \in TimeInputs : jobsetup_time(u, t)

OverlapStatus ==
    \E u \in Users : ReceiveOverlapping /\ RouteCommand(u, "status") = "cmd_status" /\ cmd_status(u)

\* user 1, with a full record, has answered "3" to /setup and all questions of /jobsetup
\* but the last; user 2, without a sample, has answered "2" to /setup
InitOverlap ==
    /\ user_data = <<FullProfile, NoSampleProfile>>
    /\ jobs_file = [u \in Users |-> <<>>]
    /\ doc_state = <<SETUP_CV, SETUP_MUSTER>>
    /\ job_state = <<JOB_TIME, END>>
    /\ ctx = <<[setup_choice |-> <<"3">>, job_title |-> DataAnalyst, job_location |-> Berlin,
                job_keywords |-> <<"S","Q","L">>, job_remote |-> TRUE],
               [setup_choice |-> <<"2">>]>>
    /\ ev = Event("none", 0, "none", <<>>)
    /\ daily = NoTask
    /\ upd = NoTask
    /\ nUpdates = 0
    /\ nRuns = 0
    /\ InitNoBatches
    /\ InitNoIds

NextOverlap ==
    \/ OverlapUpload
    \/ UploadProcessing
    \/ UploadDone
    \/ OverlapAlert
    \/ OverlapJobTime
    \/ OverlapStatus

SpecOverlap == InitOverlap /\ [][NextOverlap]_vars

----
(* Claims about the scheduled run, checked under SpecRun *)

RunGoing == daily.pc \notin {"idle", "finished"}

\* u is in user_ids after the run's current user
Pending(u) ==
    /\ RunGoing
    /\ \E n \in (daily.k + 1)..Len(daily.user_ids) : daily.user_ids[n] = u

Attempted(u) == daily.uid = u /\ daily.pc = "await_searching"

\* C3: whichever cycles of a run raise, the run ends only after the last enumerated user,
\* every enumerated user's cycle is eventually begun, and the run eventually ends.
C3_SchedulerIsolation ==
    /\ [](daily.pc = "finished" => daily.k = Len(daily.user_ids))
    /\ \A u \in Users : Pending(u) ~> Attempted(u)
    /\ RunGoing ~> (daily.pc = "finished")

\* a run over two users has ended, and logger.error named the first of them
C3_Witness ==
    /\ daily.pc = "finished"
    /\ Len(daily.user_ids) = 2
    /\ daily.user_ids[1] \in daily.errors

----
(* Claims about the preference flow, checked under SpecConv *)

\* the answer stored under key k of u's context.user_data is left as it is by this step
AnswerKept(u, k) ==
    /\ (k \in DOMAIN ctx'[u]) = (k \in DOMAIN ctx[u])
    /\ k \in DOMAIN ctx[u] => ctx'[u][k] = ctx[u][k]

\* the handler that stores each answer of the preference flow
AnswerHandler ==
    [job_title |-> "jobsetup_title", job_location |-> "jobsetup_location",
     job_keywords |-> "jobsetup_keywords", job_remote |-> "jobsetup_remote"]

\* every answer stays as collected until its own step of the flow is taken again
AnswersKept ==
    \A u \in Users, k \in DOMAIN AnswerHandler :
        (Handled /\ ev'.uid = u /\ ev'.h = AnswerHandler[k]) \/ AnswerKept(u, k)

Affirmative(text) == Lower(Strip(text)) \in {<<"j","a">>, <<"y","e","s">>, <<"j">>, <<"y">>}

\* the title, location and remote steps store the trimmed input, resp. whether it affirms
PlainAnswersStored ==
    Handled =>
        /\ ev'.h = "jobsetup_title" => ctx'[ev'.uid]["job_title"] = Strip(ev'.arg)
        /\ ev'.h = "jobsetup_location" => ctx'[ev'.uid]["job_location"] = Strip(ev'.arg)
        /\ ev'.h = "jobsetup_remote" => ctx'[ev'.uid]["job_remote"] = Affirmative(ev'.arg)

\* the time step that completes the flow stores the collected answers as job_prefs
AnswersCommitted ==
    (Handled /\ ev'.h = "jobsetup_time" /\ ev'.reply = "prefs_saved") =>
        LET prefs == user_data'[ev'.uid]["job_prefs"]
            mine  == ctx[ev'.uid]
        IN  /\ DOMAIN prefs = {"title", "location", "keywords", "remote", "hour", "minute"}
            /\ prefs.title = mine["job_title"]
            /\ prefs.location = mine["job_location"]
            /\ prefs.keywords = mine["job_keywords"]
            /\ prefs.remote = mine["job_remote"]

\* C16 as stated: the flow persists the collected answers; keywords is the empty string when
\* the (trimmed) input is "skip" and the trimmed input otherwise; the time input "ok" stores
\* the configured default hour and minute.
C16_PersistsAnswers ==
    [][/\ AnswersKept
       /\ PlainAnswersStored
       /\ AnswersCommitted
       /\ (Handled /\ ev'.h = "jobsetup_keywords") =>
             ctx'[ev'.uid]["job_keywords"] =
                IF Strip(ev'.arg) = <<"s","k","i","p">> THEN <<>> ELSE Strip(ev'.arg)
       /\ (Handled /\ ev'.h = "jobsetup_time" /\ Strip(ev'.arg) = <<"o","k">>) =>
             /\ user_data'[ev'.uid]["job_prefs"].hour = DAILY_HOUR
             /\ user_data'[ev'.uid]["job_prefs"].minute = DAILY_MINUTE]_vars

\* C16 amended: as stated, with "skip" and "ok" recognised whatever their letter case.
C16_PersistsAnswersAnyCase ==
    [][/\ AnswersKept
       /\ PlainAnswersStored
       /\ AnswersCommitted
       /\ (Handled /\ ev'.h = "jobsetup_keywords") =>
             ctx'[ev'.uid]["job_keywords"] =
                IF Lower(Strip(ev'.arg)) = <<"s","k","i","p">> THEN <<>> ELSE Strip(ev'.arg)
       /\ (Handled /\ ev'.h = "jobsetup_time" /\ Lower(Strip(ev'.arg)) = <<"o","k">>) =>
             /\ user_data'[ev'.uid]["job_prefs"].hour = DAILY_HOUR
             /\ user_data'[ev'.uid]["job_prefs"].minute = DAILY_MINUTE]_vars

\* the flow answered with "Data Analyst", "Berlin", a skip, "nein" and "ok" has been stored
C16_Witness ==
    /\ ev.h = "jobsetup_time" /\ ev.reply = "prefs_saved" /\ ev.arg = <<"o","k">>
    /\ user_data[ev.uid]["job_prefs"] =
          [title |-> DataAnalyst, location |-> Berlin, keywords |-> <<>>, remote |-> FALSE,
           hour |-> DAILY_HOUR, minute |-> DAILY_MINUTE]

----
(* Claims about the resolver, the link handler and the delivery, checked under SpecOnDemand *)

\* an update was dispatched to callback_anschreiben or to handle_url
LetterRequested == nUpdates' # nUpdates /\ ev'.h \in {"callback_anschreiben", "handle_url"}

\* C11: when the user's record lacks the CV or the sample, the button callback and the
\* link handler answer with the "run /setup first" message and start no fetch and no
\* generation, whatever the user's cache file holds.
C11_PreconditionRejection ==
    [][(LetterRequested /\ ~HasBothDocuments(ev'.uid))
       => (ev'.reply = "need_setup" /\ upd' = NoTask /\ UNCHANGED <<user_data, jobs_file>>)]_vars

\* a user without the sample pressed the button of a posting that is in the user's cache
C11_Witness ==
    /\ ev.h = "callback_anschreiben" /\ ev.reply = "need_setup"
    /\ ~HasBothDocuments(ev.uid)
    /\ load_job_from_cache(ev.uid, ev.arg[1]) # <<>>

\* the handler suspended in generate_anschreiben resumes and ends in this step
GenerationOver == upd.pc = "await_generate" /\ upd'.pc = "idle"

\* C15: a generated text whose header and body together have at most 4096 characters is
\* sent in one message, a longer one as a file; either way the whole body is sent, and
\* exactly one of the two deliveries happens.
C15_InlineOrAttachment ==
    [][(GenerationOver /\ ~ev'.arg[1].raises) =>
          /\ ev'.reply = IF HeaderLen(upd) + ev'.arg[1].len <= InlineLimit
                         THEN "inline" ELSE "document"
          /\ ev'.arg[2] = ev'.arg[1].len]_vars

\* a letter for a link came out one character too long for a message and was sent as a file
C15_Witness ==
    /\ ev.h = "handle_url" /\ ev.reply = "document"
    /\ UrlHeaderLen + ev.arg[1].len = InlineLimit + 1
    /\ ev.arg[2] = ev.arg[1].len

\* C17: when generate_anschreiben raises, the handler reports the error and ends: no letter
\* is sent in a message or as a file, and the user records and cache files stay as they are.
C17_GenerationFailure ==
    [][(GenerationOver /\ ev'.arg[1].raises) =>
          /\ ev'.reply = "generation_failed"
          /\ upd' = NoTask
          /\ UNCHANGED <<user_data, jobs_file>>]_vars

\* the generation for a pressed button has failed and the error was reported
C17_Witness ==
    /\ ev.h = "callback_anschreiben" /\ ev.reply = "generation_failed"
    /\ ev.arg[1].raises
    /\ upd = NoTask

\* the search of a /suchenow in progress has raised inside search_jobs_sync
SearchFailed == upd.h = "cmd_suchenow" /\ upd.ext.raises

\* C19: a search that fails gives that cycle an empty batch: nothing is cached, no header
\* and no posting is sent, exactly one "no results" notice is sent when the handler gets to
\* send it, and the only exceptions that leave the handler are those of its Telegram calls.
C19_SearchFailure ==
    SearchFailed =>
        /\ upd.jobs = <<>>
        /\ ~upd.cache_changed
        /\ KindCount(upd.sent, "header") = 0
        /\ KindCount(upd.sent, "job") = 0
        /\ KindCount(upd.sent, "no_results") = IF upd.pc \in {"returned", "raised"} /\ upd.at # "await_delete"
                                               THEN 1 ELSE 0
        /\ upd.pc \in {"await_delete", "await_no_results", "returned", "raised"}
        /\ upd.pc = "raised" => upd.at \in {"await_delete", "await_no_results"}

\* a /suchenow whose search failed has sent its "no results" notice and returned, the cache
\* file of an earlier search still in place
C19_Witness ==
    /\ SearchFailed /\ upd.pc = "returned"
    /\ upd.sent[Len(upd.sent)] = Notice("no_results", TRUE, 0, "")
    /\ jobs_file[upd.uid] = <<CacheDict(EarlierBatch)>>

----
(* More claims about the scheduled run, checked under SpecRun *)

\* the send of the "searching" notice of the run's current user raised in this step
SearchingNoticeFails ==
    /\ daily.pc = "await_searching"
    /\ daily'.sent # <<>>
    /\ daily'.sent[1] = Notice("searching", FALSE, 0, "")

\* C12: when the send of the "searching" notice fails, the cycle of that user goes on: the
\* search is invoked next.
C12_SearchingNoticeBestEffort ==
    [][SearchingNoticeFails => daily'.pc = "await_search"]_vars

\* the users of the run's list
Enumerated == {daily.user_ids[n] : n \in 1..Len(daily.user_ids)}

\* u's record has a search preference and the alert switched on
Eligible(u) ==
    /\ "job_prefs" \in DOMAIN user_data[u] /\ user_data[u]["job_prefs"] # <<>>
    /\ "job_alert_active" \in DOMAIN user_data[u] /\ user_data[u]["job_alert_active"]

\* C14: a run lists exactly the users whose record, when the run starts, has a search
\* preference and the alert on, each once, and the cycles of the run (searching notice,
\* search, notifications) are those of the listed users and of no other user.
C14_Eligibility ==
    /\ [][nRuns' # nRuns =>
            /\ Enumerated' = {u \in Users : Eligible(u)}
            /\ Len(daily'.user_ids) = Cardinality(Enumerated')]_vars
    /\ [](RunGoing => daily.uid = daily.user_ids[daily.k])

\* a run over user 1 alone has ended, user 2 having switched the alert off before it started
C14_Witness ==
    /\ daily.pc = "finished" /\ daily.user_ids = <<1>>
    /\ ev.h = "cmd_alert" /\ ev.uid = 2 /\ ev.reply = "alert_off"
    /\ HasValue(user_data[2], "job_prefs")
    /\ nUpdates = 1

\* the run is suspended in a user's cycle: at the search in the executor, or at the sleep
\* after a posting's message
Suspended == daily.pc \in {"await_search", "await_sleep"}

\* the run has just sent a posting's message
PostingNoticeSent ==
    /\ Len(daily'.sent) = Len(daily.sent) + 1
    /\ daily'.sent[Len(daily'.sent)].kind = "job"
    /\ daily'.sent[Len(daily'.sent)].ok

\* the /alert of user u is handled in one step, and the run stays where it is
HandledMeanwhile(u) ==
    /\ DigestAlert
    /\ ev'.h = "cmd_alert" /\ ev'.uid = u
    /\ upd' = upd /\ upd.pc = "idle"
    /\ daily' = daily

\* C20: after every posting's message the run is at the sleep, which it leaves for the next
\* posting or the end of the cycle without sending anything; while the run is at the search
\* or at the sleep, an update of any other user that arrives is handled to its end with the
\* cycle where it was.
C20_CooperativePacing ==
    /\ [][PostingNoticeSent => daily'.pc = "await_sleep"]_vars
    /\ [][daily.pc = "await_sleep" /\ daily' # daily =>
             /\ daily'.sent = daily.sent
             /\ daily'.pc = IF daily.i < Len(daily.jobs) THEN "await_job" ELSE "returned"]_vars
    /\ [](Suspended /\ upd.pc = "idle" /\ nUpdates < MaxDigestUpdates =>
             \A u \in Users \ {daily.uid} : ENABLED HandledMeanwhile(u))
    /\ [][Suspended /\ ev' # ev => daily' = daily /\ upd'.pc = "idle"]_vars

\* the run sleeps after a posting's message of its first user, and since the run began the
\* other user of its list has switched the alert off
C20_Witness ==
    /\ daily.pc = "await_sleep" /\ daily.k = 1
    /\ daily.sent[Len(daily.sent)] = Notice("job", TRUE, daily.i, job_id(daily.jobs[daily.i]))
    /\ ev.h = "cmd_alert" /\ ev.uid # daily.uid /\ ev.reply = "alert_off"
    /\ ev.uid \in Enumerated

\* the notices of the current cycle that were delivered
Delivered == {n \in 1..Len(daily.sent) : daily.sent[n].ok}

\* C24: a user whose alert was off in the record the scheduler read when it began the
\* user's cycle gets no notice from that cycle.
C24_NoDigestWhenAlertOff ==
    (RunGoing /\ ~IsTrue(daily.data, "job_alert_active")) => Delivered = {}

----
(* More claims about the digest, checked under SpecDaily *)

\* C13: within one digest no two posting notices carry the same item id, and when the cycle
\* has returned the number of posting notices sent is the number of entries in the cache
\* file the cycle wrote.
C13_DigestDeduplicates ==
    daily.jobs # <<>> =>
        /\ \A a, b \in 1..Len(NotifiedIds) : a # b => NotifiedIds[a] # NotifiedIds[b]
        /\ daily.pc = "returned" =>
              Len(NotifiedIds) = Cardinality(DOMAIN jobs_file[daily.uid][1])


\* the calls of send_message send_jobs_to_user has made in the run's current cycle
BatchNotices == Tail(daily.sent)

\* the run's current cycle is in send_jobs_to_user, or has left it, with a batch of postings
InBatch ==
    /\ daily.jobs # <<>>
    /\ daily.pc \in SendPcs \cup {"returned", "raised"}

\* C18: for a batch that is not empty the user's cache file holds the batch before any
\* notice of the batch is sent; the notices are one header and then one per posting in
\* batch order, each with the posting's job_id as its callback id; and every id sent
\* resolves in the user's cache.
C18_DigestOrdering ==
    InBatch =>
        /\ jobs_file[daily.uid] = <<CacheDict(daily.jobs)>>
        /\ Len(BatchNotices) <= 1 + Len(daily.jobs)
        /\ daily.pc = "returned" => Len(BatchNotices) = 1 + Len(daily.jobs)
        /\ \A n \in 1..Len(BatchNotices) :
              IF n = 1 THEN BatchNotices[n].kind = "header"
              ELSE /\ BatchNotices[n].kind = "job"
                   /\ BatchNotices[n].n = n - 1
                   /\ BatchNotices[n].jid = job_id(daily.jobs[n - 1])
                   /\ load_job_from_cache(daily.uid, BatchNotices[n].jid) # <<>>

\* a digest of ten postings has been sent, and the button of its last posting resolves
C18_Witness ==
    /\ daily.pc = "returned" /\ Len(daily.jobs) = MaxJobs
    /\ Len(BatchNotices) = 1 + MaxJobs
    /\ load_job_from_cache(daily.uid, BatchNotices[1 + MaxJobs].jid) = daily.jobs[MaxJobs]

----
(* Claims about the writes of the user records, checked under SpecProfile *)

\* the preference the answers of u's flow make, the last answer being text
AnsweredPrefs(u, text) ==
    [title    |-> ctx[u]["job_title"],
     location |-> ctx[u]["job_location"],
     keywords |-> ctx[u]["job_keywords"],
     remote   |-> ctx[u]["job_remote"],
     hour     |-> TimeHour(Lower(Strip(text))),
     minute   |-> TimeMinute(Lower(Strip(text)))]

\* the step stores value v in field k of u's record and changes nothing else in the records
WritesField(u, k, v) == OnlyFieldWritten(u, k) /\ user_data'[u][k] = v

\* C21: a step changes the user records in one field of one user at most: the commit of the
\* preference flow puts the preference made of that flow's answers in job_prefs, whatever
\* was stored; an upload puts the document in its own field; /alert negates
\* job_alert_active, or writes nothing when it refuses; every other step (the button, the
\* link, /status, the other steps of the flows) leaves the records as they are.
C21_FieldLocalWrites ==
    [][LET u == ev'.uid
       IN  IF Handled /\ ev'.h = "jobsetup_time" /\ ev'.reply = "prefs_saved"
           THEN WritesField(u, "job_prefs", AnsweredPrefs(u, ev'.arg))
           ELSE IF Handled /\ ev'.h = "setup_cv" /\ ev'.reply # "ask_file"
           THEN WritesField(u, "lebenslauf", ev'.arg[1])
           ELSE IF Handled /\ ev'.h = "setup_muster" /\ ev'.reply # "ask_file"
           THEN WritesField(u, "muster", ev'.arg[1])
           ELSE IF Handled /\ ev'.h = "cmd_alert" /\ ev'.reply # "need_jobsetup"
           THEN WritesField(u, "job_alert_active", ~IsTrue(user_data[u], "job_alert_active"))
           ELSE user_data' = user_data]_vars

\* a user with documents, a preference and the alert on has committed the flow again: the
\* stored preference is the new one, different from the old one in four fields, and the
\* documents and the alert are as they were
C21_Witness ==
    /\ ev.h = "jobsetup_time" /\ ev.reply = "prefs_saved" /\ ev.uid = 1
    /\ user_data[1] = [FullProfile EXCEPT !.job_prefs =
                          [title |-> DataAnalyst, location |-> Berlin,
                           keywords |-> <<"S","Q","L">>, remote |-> TRUE, hour |-> 7, minute |-> 30]]

\* u's record has the alert switched on
AlertOn(u) == IsTrue(user_data[u], "job_alert_active")

\* u's record has a search preference
HasPrefs(u) == HasValue(user_data[u], "job_prefs")

\* C22: in every state a user whose alert is on has a stored preference; a stored
\* preference stays stored in every step; and an /alert of a user without a preference is
\* refused and writes nothing.
C22_AlertNeedsPreference ==
    /\ [](\A u \in Users : AlertOn(u) => HasPrefs(u))
    /\ [][\A u \in Users : HasPrefs(u) => HasValue(user_data'[u], "job_prefs")]_vars
    /\ [][(Handled /\ ev'.h = "cmd_alert" /\ ~HasPrefs(ev'.uid))
            => ev'.reply = "need_jobsetup" /\ user_data' = user_data]_vars

\* a user with both documents and no preference has sent /alert: the record is as it was
C22_Witness ==
    /\ ev.h = "cmd_alert" /\ ev.uid = 2 /\ ev.reply = "need_jobsetup"
    /\ user_data[2] = NoPrefsProfile

----
(* Claims about handlers that overlap, checked under SpecOverlap *)

ProfileFields == {"lebenslauf", "muster", "job_prefs", "job_alert_active"}

\* the handler that writes field k
WriterOf(k) ==
    IF k = "lebenslauf" THEN "setup_cv"
    ELSE IF k = "muster" THEN "setup_muster"
    ELSE IF k = "job_prefs" THEN "jobsetup_time"
    ELSE "cmd_alert"

\* field k of u's record is not the same after the step: another value, or gone, or new
FieldChanged(u, k) ==
    \/ (k \in DOMAIN user_data[u]) # (k \in DOMAIN user_data'[u])
    \/ k \in DOMAIN user_data[u] /\ k \in DOMAIN user_data'[u] /\ user_data'[u][k] # user_data[u][k]

\* C23: however the handlers overlap, a field of a user's record changes only in the step
\* in which the handler of that field writes it for that user, and that step writes into
\* the record as it is then: every other field keeps the value committed last.
C23_NoLostUpdate ==
    [][\A u \in Users : \A k \in ProfileFields :
          FieldChanged(u, k) => /\ ev'.uid = u
                                /\ ev'.h = WriterOf(k)
                                /\ OnlyFieldWritten(u, k)]_vars

\* user 1's upload is at its download and, since it was received, user 1 has switched the
\* alert off
C23_Witness ==
    /\ upd.pc = "await_download" /\ upd.uid = 1 /\ upd.h = "setup_cv"
    /\ ev.h = "cmd_alert" /\ ev.uid = 1 /\ ev.reply = "alert_off"
    /\ ~IsTrue(user_data[1], "job_alert_active")

====
